---- MODULE Spec2Model ----
(***************************************************************************)
(* A model of the vanity import server (main.go): the HTTP handler, the    *)
(* upstream fetch of the git reference advertisement, and changeRefs, the  *)
(* scan-and-rewrite of that advertisement.                                 *)
(*                                                                         *)
(* Byte strings are sequences of one-byte tokens; offsets are 0-based as   *)
(* in the Go code and Slice(s, a, b) is Go's s[a:b].                      *)
(***************************************************************************)
EXTENDS Integers, Sequences, FiniteSets, TLC

\* ------------------------------------------------------------------ bounds

\* Longest advertisement, in frames, handed to changeRefs.
MaxFrames == 4

\* Number of handler invocations that may run concurrently.
NumReqs == 2

\* How many sizes of the original HEAD frame are tried at each end of the
\* range of sizes.
SizeSpan == 30

\* ------------------------------------------------------------------- bytes

NUL == "NUL"
LF == "LF"
SP == " "

\* The length of a git object id, tested by the scan.
HashLen == 40

Rep(c, n) == [k \in 1..n |-> c]

\* Go's s[a:b]; defined only for 0 <= a <= b <= len(s).
Slice(s, a, b) == SubSeq(s, a + 1, b)

SliceOK(s, a, b) == 0 <= a /\ a <= b /\ b <= Len(s)

\* strings.IndexAny(s, chars): offset of the first byte of s in cs, or -1.
IndexAny(s, cs) ==
    IF \E k \in 1..Len(s) : s[k] \in cs
    THEN (CHOOSE k \in 1..Len(s) : s[k] \in cs /\ \A m \in 1..(k - 1) : s[m] \notin cs) - 1
    ELSE -1

\* strings.IndexByte(s, c).
IndexByte(s, c) == IndexAny(s, {c})

\* strings.HasPrefix and strings.HasSuffix.
HasPrefix(s, p) == Len(s) >= Len(p) /\ SubSeq(s, 1, Len(p)) = p

HasSuffix(s, p) == Len(s) >= Len(p) /\ SubSeq(s, Len(s) - Len(p) + 1, Len(s)) = p

\* strings.Replace(s, old, new, -1) for a non-empty old: every non-overlapping
\* occurrence, left to right.
RECURSIVE Replace(_, _, _)
Replace(s, old, new) ==
    IF Len(s) < Len(old) THEN s
    ELSE IF HasPrefix(s, old)
         THEN new \o Replace(SubSeq(s, Len(old) + 1, Len(s)), old, new)
         ELSE <<s[1]>> \o Replace(Tail(s), old, new)

\* Pieces of s between occurrences of the byte c (strings.Split).
RECURSIVE SplitOn(_, _)
SplitOn(s, c) ==
    LET k == IndexByte(s, c)
    IN  IF k < 0 THEN <<s>>
        ELSE <<Slice(s, 0, k)>> \o SplitOn(Slice(s, k + 1, Len(s)), c)

\* ---------------------------------------------------------------- numbers

HexLower == <<"0", "1", "2", "3", "4", "5", "6", "7", "8", "9", "a", "b", "c", "d", "e", "f">>

HexUpper == <<"0", "1", "2", "3", "4", "5", "6", "7", "8", "9", "A", "B", "C", "D", "E", "F">>

IsHexDigit(c) == \E k \in 1..16 : HexLower[k] = c \/ HexUpper[k] = c

HexVal(c) == (CHOOSE k \in 1..16 : HexLower[k] = c \/ HexUpper[k] = c) - 1

RECURSIVE HexNum(_)
HexNum(s) == IF s = <<>> THEN 0 ELSE 16 * HexNum(SubSeq(s, 1, Len(s) - 1)) + HexVal(s[Len(s)])

\* strconv.ParseInt(s, 16, 32): an optional sign, then one or more hex digits
\* of either case. Four bytes never overflow 32 bits.
ParseInt(s) ==
    LET signed == Len(s) > 0 /\ s[1] \in {"+", "-"}
        digits == IF signed THEN Tail(s) ELSE s
        ok == Len(digits) > 0 /\ \A k \in 1..Len(digits) : IsHexDigit(digits[k])
    IN  [ok |-> ok,
         val |-> IF ~ok THEN 0
                 ELSE IF signed /\ s[1] = "-" THEN 0 - HexNum(digits) ELSE HexNum(digits)]

RECURSIVE HexDigitsOf(_)
HexDigitsOf(n) == IF n < 16 THEN <<HexLower[n + 1]>> ELSE HexDigitsOf(n \div 16) \o <<HexLower[(n % 16) + 1]>>

\* fmt's %04x of a non-negative int: lower-case hex, zero-padded to at least 4.
Fmt04x(n) ==
    LET d == HexDigitsOf(n)
    IN  IF Len(d) >= 4 THEN d ELSE Rep("0", 4 - Len(d)) \o d

DecDigits == <<"0", "1", "2", "3", "4", "5", "6", "7", "8", "9">>

IsDecDigit(c) == \E k \in 1..10 : DecDigits[k] = c

DecVal(c) == (CHOOSE k \in 1..10 : DecDigits[k] = c) - 1

RECURSIVE DecNum(_)
DecNum(s) == IF s = <<>> THEN 0 ELSE 10 * DecNum(SubSeq(s, 1, Len(s) - 1)) + DecVal(s[Len(s)])

RECURSIVE DecDigitsOf(_)
DecDigitsOf(n) == IF n < 10 THEN <<DecDigits[n + 1]>> ELSE DecDigitsOf(n \div 10) \o <<DecDigits[(n % 10) + 1]>>

\* ---------------------------------------------------------------- Version
\* The Version type lives in a file of the repository that is not part of
\* the sources at hand; it is modelled from the specification's data model.
\* main.go fixes the field order {Major, Minor, Patch, Unstable} and -1 for
\* an unset field (the v0 literal in changeRefs).

Version(ma, mi, pa, un) == [Major |-> ma, Minor |-> mi, Patch |-> pa, Unstable |-> un]

InvalidVersion == Version(-1, -1, -1, FALSE)

IsValid(v) == v # InvalidVersion

\* a.Less(b): major, then minor, then patch; unset (-1) sorts lowest.
Less(a, b) ==
    IF a.Major # b.Major THEN a.Major < b.Major
    ELSE IF a.Minor # b.Minor THEN a.Minor < b.Minor
    ELSE IF a.Patch # b.Patch THEN a.Patch < b.Patch
    ELSE a.Unstable /\ ~b.Unstable

\* a.Contains(b): every field set in a equals b's, and the unstable flags agree.
Contains(a, b) ==
    /\ a.Unstable = b.Unstable
    /\ a.Major = b.Major
    /\ (a.Minor # -1 => a.Minor = b.Minor)
    /\ (a.Patch # -1 => a.Patch = b.Patch)

unstableSuffix == <<"-", "u", "n", "s", "t", "a", "b", "l", "e">>

\* A version part: decimal digits, no leading zero except the literal 0.
IsVersionPart(p) ==
    /\ Len(p) > 0
    /\ \A k \in 1..Len(p) : IsDecDigit(p[k])
    /\ (Len(p) > 1 => p[1] # "0")

\* parseVersion(s): v<major>[.<minor>[.<patch>]][-unstable].
parseVersion(s) ==
    LET unstable == HasSuffix(s, unstableSuffix)
        core == IF unstable THEN SubSeq(s, 1, Len(s) - Len(unstableSuffix)) ELSE s
        parts == IF Len(core) >= 1 THEN SplitOn(Tail(core), ".") ELSE <<>>
        ok == /\ Len(core) >= 2
              /\ core[1] = "v"
              /\ Len(parts) \in 1..3
              /\ \A k \in 1..Len(parts) : IsVersionPart(parts[k])
    IN  [ok |-> ok,
         v |-> IF ~ok THEN InvalidVersion
               ELSE Version(DecNum(parts[1]),
                            IF Len(parts) >= 2 THEN DecNum(parts[2]) ELSE -1,
                            IF Len(parts) >= 3 THEN DecNum(parts[3]) ELSE -1,
                            unstable)]

\* v.String(): the inverse rendering.
VersionString(v) ==
    <<"v">> \o DecDigitsOf(v.Major)
        \o (IF v.Minor # -1 THEN <<".">> \o DecDigitsOf(v.Minor) ELSE <<>>)
        \o (IF v.Minor # -1 /\ v.Patch # -1 THEN <<".">> \o DecDigitsOf(v.Patch) ELSE <<>>)
        \o (IF v.Unstable THEN unstableSuffix ELSE <<>>)

\* ------------------------------------------------------------- changeRefs
\* Error values. ErrNoRepo and ErrNoVersion are the package's sentinels; the
\* fmt.Errorf values are told apart by where they are made.

ErrNone == "nil"
ErrNoRepo == "ErrNoRepo"
ErrNoVersion == "ErrNoVersion"
ErrParseSize == "cannot parse refs line size"
ErrIncomplete == "incomplete refs data received"
ErrTalk == "cannot talk to git repository"
ErrStatus == "error from git repository"
ErrRead == "error reading from git"

\* A run-time panic (slice bounds or index out of range) unwinds the call.
Panic == "panic"

HEADName == <<"H", "E", "A", "D">>
MasterName == <<"r", "e", "f", "s", "/", "h", "e", "a", "d", "s", "/", "m", "a", "s", "t", "e", "r">>
HeadsPrefix == <<"r", "e", "f", "s", "/", "h", "e", "a", "d", "s", "/">>
HeadsVPrefix == <<"r", "e", "f", "s", "/", "h", "e", "a", "d", "s", "/", "v">>
TagsVPrefix == <<"r", "e", "f", "s", "/", "t", "a", "g", "s", "/", "v">>
PeelSuffix == <<"^", "{", "}">>
SymrefEq == <<"s", "y", "m", "r", "e", "f", "=">>
OldrefEq == <<"o", "l", "d", "r", "e", "f", "=">>
SymrefHEAD == <<"s", "y", "m", "r", "e", "f", "=", "H", "E", "A", "D", ":">>

\* The v0 wildcard, Version{0, -1, -1, false}.
VersionZero == Version(0, -1, -1, FALSE)

\* The locals of changeRefs as the scan starts; st is "scan" while the loop
\* runs, "scanned" when i reached len(data), else the error or Panic.
ScanInit ==
    [i |-> 0, hlinei |-> 0, hlinej |-> 0, mlinei |-> 0, mlinej |-> 0,
     vrefv |-> InvalidVersion, vrefhash |-> <<>>, vrefname |-> <<>>,
     versions |-> <<>>, st |-> "scan"]

\* for ...; i < len(data); i = j: the loop ends when the test fails.
ScanLoop(data, s) == IF s.st # "scan" \/ s.i < Len(data) THEN s ELSE [s EXCEPT !.st = "scanned"]

\* The version branch with the test v == vrefv left out: of two references of
\* one Version the first seen is kept.
ScanVersionRefFirstWins(major, s, name0, hash) ==
    LET name == IF HasSuffix(name0, PeelSuffix) THEN SubSeq(name0, 1, Len(name0) - 3) ELSE name0
        pv == parseVersion(Slice(name, IndexByte(name, "v"), Len(name)))
        v == pv.v
        take == /\ pv.ok
                /\ Contains(major, v)
                /\ (~IsValid(s.vrefv) \/ Less(s.vrefv, v))
        s1 == IF take THEN [s EXCEPT !.vrefv = v, !.vrefhash = hash, !.vrefname = name] ELSE s
    IN  IF pv.ok THEN [s1 EXCEPT !.versions = Append(s1.versions, v)] ELSE s1

\* The version branch with the peel suffix left on the name.
ScanVersionRefUnpeeled(major, s, name0, hash) ==
    LET name == name0
        pv == parseVersion(Slice(name, IndexByte(name, "v"), Len(name)))
        v == pv.v
        take == /\ pv.ok
                /\ Contains(major, v)
                /\ (v = s.vrefv \/ ~IsValid(s.vrefv) \/ Less(s.vrefv, v))
        s1 == IF take THEN [s EXCEPT !.vrefv = v, !.vrefhash = hash, !.vrefname = name] ELSE s
    IN  IF pv.ok THEN [s1 EXCEPT !.versions = Append(s1.versions, v)] ELSE s1

\* The version branch of the loop body: a refs/heads/v* or refs/tags/v* name.
ScanVersionRef(major, s, name0, hash) ==
    LET name == IF HasSuffix(name0, PeelSuffix) THEN SubSeq(name0, 1, Len(name0) - 3) ELSE name0
        pv == parseVersion(Slice(name, IndexByte(name, "v"), Len(name)))
        v == pv.v
        take == /\ pv.ok
                /\ Contains(major, v)
                /\ (v = s.vrefv \/ ~IsValid(s.vrefv) \/ Less(s.vrefv, v))
        s1 == IF take THEN [s EXCEPT !.vrefv = v, !.vrefhash = hash, !.vrefname = name] ELSE s
    IN  IF pv.ok THEN [s1 EXCEPT !.versions = Append(s1.versions, v)] ELSE s1

\* The part of the loop body after the frame [i, j) is known to lie in data.
ScanFrame(data, major, s, j) ==
    LET hashi == s.i + 4
        hashrel == IndexByte(Slice(data, hashi, j), SP)
        hashj == hashrel + hashi
        namei == hashj + 1
        namerel == IndexAny(Slice(data, namei, j), {LF, NUL})
        namej == IF namerel < 0 THEN j ELSE namerel + namei
        name == Slice(data, namei, namej)
        s1 == IF name = HEADName THEN [s EXCEPT !.hlinei = s.i, !.hlinej = j] ELSE s
        s2 == IF name = MasterName THEN [s1 EXCEPT !.mlinei = s.i, !.mlinej = j] ELSE s1
        s3 == IF HasPrefix(name, HeadsVPrefix) \/ HasPrefix(name, TagsVPrefix)
              THEN ScanVersionRef(major, s2, name, Slice(data, hashi, hashj))
              ELSE s2
    IN  IF data[1] = "#" THEN [s EXCEPT !.i = j]
        ELSE IF ~SliceOK(data, hashi, j) THEN [s EXCEPT !.st = Panic]
        ELSE IF hashrel < 0 \/ hashrel # HashLen THEN [s EXCEPT !.i = j]
        ELSE [s3 EXCEPT !.i = j]

\* One iteration of the scan loop, entered with 0 <= i < len(data) or, after
\* a negative size moved the cursor back below 0, with i < 0.
ScanIter(data, major, s) ==
    IF ~SliceOK(data, s.i, s.i + 4) THEN [s EXCEPT !.st = Panic]
    ELSE LET p == ParseInt(Slice(data, s.i, s.i + 4))
             size == IF p.val = 0 THEN 4 ELSE p.val
             j == s.i + size
         IN  IF ~p.ok THEN [s EXCEPT !.st = ErrParseSize]
             ELSE IF j > Len(data) THEN [s EXCEPT !.st = ErrIncomplete]
             ELSE ScanFrame(data, major, s, j)

\* The offset of the first NUL within the original HEAD frame, or -1.
HeadNul(data, s) == IndexByte(Slice(data, s.hlinei, s.hlinej), NUL)

\* sdata[hlinei+i+1:hlinej-1] is in range (it is not when the NUL is the
\* frame's last byte).
HeadCapsOK(data, s) ==
    HeadNul(data, s) > 0 => SliceOK(data, s.hlinei + HeadNul(data, s) + 1, s.hlinej - 1)

\* The capabilities of the original HEAD frame, symref= renamed to oldref=.
HeadCaps(data, s) ==
    IF HeadNul(data, s) > 0
    THEN Replace(Slice(data, s.hlinei + HeadNul(data, s) + 1, s.hlinej - 1), SymrefEq, OldrefEq)
    ELSE <<>>

\* The HEAD payload with a symref to refs/heads/master whatever was selected.
HeadLineSymrefMaster(vrefhash, vrefname, caps) ==
    IF caps = <<>>
    THEN vrefhash \o <<SP>> \o HEADName \o <<NUL>> \o SymrefHEAD \o MasterName \o <<LF>>
    ELSE vrefhash \o <<SP>> \o HEADName \o <<NUL>> \o SymrefHEAD \o MasterName \o <<SP>> \o caps \o <<LF>>

\* The payload of the synthesized HEAD frame.
HeadLine(vrefhash, vrefname, caps) ==
    IF HasPrefix(vrefname, HeadsPrefix)
    THEN IF caps = <<>>
         THEN vrefhash \o <<SP>> \o HEADName \o <<NUL>> \o SymrefHEAD \o vrefname \o <<LF>>
         ELSE vrefhash \o <<SP>> \o HEADName \o <<NUL>> \o SymrefHEAD \o vrefname \o <<SP>> \o caps \o <<LF>>
    ELSE IF caps = <<>>
         THEN vrefhash \o <<SP>> \o HEADName \o <<LF>>
         ELSE vrefhash \o <<SP>> \o HEADName \o <<NUL>> \o caps \o <<LF>>

\* The payload of the synthesized refs/heads/master frame.
MasterLine(vrefhash) == vrefhash \o <<SP>> \o MasterName \o <<LF>>

\* fmt.Fprintf(&buf, "%04x%s", 4+len(line), line).
PktLine(line) == Fmt04x(4 + Len(line)) \o line

\* "If the file has no HEAD line or the version was not found".
NotFound(s) == s.hlinei = 0 \/ s.vrefhash = <<>>

\* The original master frame is dropped when one was recorded.
HasMaster(s) == s.mlinei > 0

\* data[hlinej:mlinei] and data[mlinej:] are in range.
RestOK(data, s) ==
    HasMaster(s) => SliceOK(data, s.hlinej, s.mlinei) /\ SliceOK(data, s.mlinej, Len(data))

\* The rest with the original master frame left in.
RestWhole(data, s) == Slice(data, s.hlinej, Len(data))

\* What follows the two synthesized frames.
Rest(data, s) ==
    IF HasMaster(s)
    THEN Slice(data, s.hlinej, s.mlinei) \o Slice(data, s.mlinej, Len(data))
    ELSE Slice(data, s.hlinej, Len(data))

Returned(changed, versions, err) == [changed |-> changed, versions |-> versions, err |-> err]

\* The rewrite proper, once HEAD and a best reference are known; a slice out
\* of range panics.
Rewrite(data, s) ==
    IF ~HeadCapsOK(data, s) \/ ~RestOK(data, s) THEN Returned(<<>>, <<>>, Panic)
    ELSE Returned(Slice(data, 0, s.hlinei)
                    \o PktLine(HeadLine(s.vrefhash, s.vrefname, HeadCaps(data, s)))
                    \o PktLine(MasterLine(s.vrefhash))
                    \o Rest(data, s),
                  s.versions, ErrNone)

\* changeRefs with the not-found test ahead of the v0 shortcut.
PostScanNotFoundFirst(data, major, s) ==
    IF s.st # "scanned" THEN Returned(<<>>, <<>>, s.st)
    ELSE IF NotFound(s) THEN Returned(<<>>, <<>>, ErrNoVersion)
    ELSE IF major = VersionZero THEN Returned(data, <<>>, ErrNone)
    ELSE Rewrite(data, s)

\* changeRefs with the v0 shortcut taken whatever the scan met.
PostScanZeroFirst(data, major, s) ==
    IF major = VersionZero THEN Returned(data, <<>>, ErrNone)
    ELSE IF s.st # "scanned" THEN Returned(<<>>, <<>>, s.st)
    ELSE IF NotFound(s) THEN Returned(<<>>, <<>>, ErrNoVersion)
    ELSE Rewrite(data, s)

\* changeRefs with the v0 shortcut taken only when no version was found.
PostScanZeroWhenNoVersions(data, major, s) ==
    IF s.st # "scanned" THEN Returned(<<>>, <<>>, s.st)
    ELSE IF major = VersionZero /\ s.versions = <<>> THEN Returned(data, <<>>, ErrNone)
    ELSE IF NotFound(s) THEN Returned(<<>>, <<>>, ErrNoVersion)
    ELSE Rewrite(data, s)

\* changeRefs after the loop: the v0 shortcut, the not-found test, the rewrite.
\* A nil slice is the empty sequence.
PostScan(data, major, s) ==
    IF s.st # "scanned" THEN Returned(<<>>, <<>>, s.st)
    ELSE IF major = VersionZero THEN Returned(data, <<>>, ErrNone)
    ELSE IF NotFound(s) THEN Returned(<<>>, <<>>, ErrNoVersion)
    ELSE Rewrite(data, s)

\* The whole scan, run to its end.
RECURSIVE ScanAll(_, _, _)
ScanAll(data, major, s) ==
    IF s.st # "scan" THEN s
    ELSE CHOOSE end \in {ScanAll(data, major, t) : t \in {ScanLoop(data, ScanIter(data, major, s))}} : TRUE

\* changeRefs(data, major) as one call.
changeRefs(data, major) ==
    CHOOSE r \in {PostScan(data, major, s) : s \in {ScanAll(data, major, ScanLoop(data, ScanInit))}} : TRUE

\* ---------------------------------------------------------- advertisements
\* What the upstream may send: frames in the pkt-line format, in any order,
\* possibly ending in a frame with a bad length field or a truncated frame.
\* A hash is forty times the same hex digit.

Frame(kind, hash, name, caps) == [kind |-> kind, hash |-> hash, name |-> name, caps |-> caps]

BannerText == <<"#", SP, "s", "e", "r", "v", "i", "c", "e", "=", "g", "i", "t", "-", "u", "p", "l", "o", "a", "d", "-", "p", "a", "c", "k", LF>>
HeadCapsText == <<"m", "u", "l", "t", "i", "_", "a", "c", "k", SP, "s", "y", "m", "r", "e", "f", "=", "H", "E", "A", "D", ":", "r", "e", "f", "s", "/", "h", "e", "a", "d", "s", "/", "m", "a", "s", "t", "e", "r">>

\* The frames advertisements are put together from, in every order.
Catalogue ==
    << Frame("banner", "", <<>>, <<>>),
       Frame("flush", "", <<>>, <<>>),
       Frame("ref", "a", HEADName, HeadCapsText),
       Frame("ref", "a", MasterName, <<>>),
       Frame("ref", "b", <<"r", "e", "f", "s", "/", "h", "e", "a", "d", "s", "/", "v", "1">>, <<>>),
       Frame("ref", "c", <<"r", "e", "f", "s", "/", "t", "a", "g", "s", "/", "v", "1", ".", "3", ".", "0">>, <<>>),
       Frame("ref", "d", <<"r", "e", "f", "s", "/", "t", "a", "g", "s", "/", "v", "1", ".", "3", ".", "0", "^", "{", "}">>, <<>>) >>

MultiAckText == <<"m", "u", "l", "t", "i", "_", "a", "c", "k">>
TwoSymrefsText == <<"s", "y", "m", "r", "e", "f", "=", "a", SP, "m", "u", "l", "t", "i", "_", "a", "c", "k", SP, "s", "y", "m", "r", "e", "f", "=", "b">>

\* More frames, for the advertisements given in full below. A frame of kind
\* "ref" ends in a newline and has a NUL when it has capabilities; "nolf" is
\* the same without the newline (the protocol lets a sender leave it out);
\* "nul" has a NUL and nothing after it; "nullf" a NUL and the newline.
MoreRefs ==
    << Frame("ref", "e", <<"r", "e", "f", "s", "/", "h", "e", "a", "d", "s", "/", "v", "2">>, <<>>),
       Frame("ref", "f", <<"r", "e", "f", "s", "/", "h", "e", "a", "d", "s", "/", "v", "x">>, <<>>),
       Frame("ref", "9", <<"r", "e", "f", "s", "/", "t", "a", "g", "s", "/", "v", "1", ".", "2", ".", "0">>, <<>>),
       Frame("ref", "8", <<"r", "e", "f", "s", "/", "t", "a", "g", "s", "/", "v", "0", ".", "1", ".", "0">>, <<>>),
       Frame("nolf", "a", HEADName, MultiAckText),
       Frame("nul", "a", HEADName, <<>>),
       Frame("ref", "a", HEADName, <<>>),
       Frame("ref", "a", HEADName, TwoSymrefsText),
       Frame("nullf", "a", HEADName, <<>>) >>

AllFrames == Catalogue \o MoreRefs

Payload(f) ==
    IF f.kind = "banner" THEN BannerText
    ELSE Rep(f.hash, HashLen) \o <<SP>> \o f.name
            \o (IF f.caps = <<>> /\ f.kind \notin {"nul", "nullf"} THEN <<>> ELSE <<NUL>> \o f.caps)
            \o (IF f.kind \in {"ref", "nullf"} THEN <<LF>> ELSE <<>>)

\* One frame on the wire: a flush is the bare length 0000.
Encode(f) ==
    IF f.kind = "flush" THEN Rep("0", 4)
    ELSE Fmt04x(4 + Len(Payload(f))) \o Payload(f)

RECURSIVE EncodeAll(_)
EncodeAll(fs) == IF fs = <<>> THEN <<>> ELSE Encode(Head(fs)) \o EncodeAll(Tail(fs))

\* How a corrupted advertisement ends: a length field that is no hex number,
\* or a frame whose announced length passes the end of the data.
BadHexTail == <<"0", "0", "z", "z">> \o Payload(Catalogue[4])
TruncTail == SubSeq(Encode(Catalogue[4]), 1, 30)
ShortTail == <<"0", "0">>

\* Length fields ParseInt accepts that are no frame length: 3, and -1.
SmallTail == <<"0", "0", "0", "3">>
NegativeTail == <<"-", "0", "0", "1">>

Tails == {"none", "badhex", "trunc", "short", "small", "negative"}

TailBytes(t) ==
    IF t = "badhex" THEN BadHexTail
    ELSE IF t = "trunc" THEN TruncTail
    ELSE IF t = "short" THEN ShortTail
    ELSE IF t = "small" THEN SmallTail
    ELSE IF t = "negative" THEN NegativeTail
    ELSE <<>>

\* Frames drawn from the catalogue, each at most once, n of them.
Picks(n) == {p \in [1..n -> 1..Len(Catalogue)] : \A a, b \in 1..n : a # b => p[a] # p[b]}

Advert(picks, tail) == [frames |-> [k \in 1..Len(picks) |-> AllFrames[picks[k]]], tail |-> tail]

\* A repository as git lists it, with branches v1 and v2 and tags v1.2.0 and
\* v1.3.0, the latter annotated; one with a v2 branch only; one whose only
\* v-branch is no version; one with a v0.1.0 tag; and repositories whose
\* HEAD frame has another shape, with a v1 branch or a v1.3.0 tag.
Repositories ==
    { Advert(<<1, 2, 3, 4, 5, 8, 10, 6, 7, 2>>, "none"),
      Advert(<<1, 2, 3, 4, 8, 2>>, "none"),
      Advert(<<1, 2, 3, 4, 9, 2>>, "none"),
      Advert(<<1, 2, 3, 4, 11, 2>>, "none") }
    \cup {Advert(<<1, h, v>>, "none") : h \in 12..16, v \in {5, 6}}

\* The advertisements of at most MaxFrames catalogue frames, a corrupt tail
\* counted, and the repositories.
Adverts ==
    {[frames |-> [k \in 1..n |-> Catalogue[p[k]]], tail |-> t] :
        <<n, p, t>> \in {x \in UNION {{<<m, pk, tl>> : pk \in Picks(m), tl \in Tails} : m \in 0..MaxFrames} :
                            x[3] # "none" => x[1] < MaxFrames}}
    \cup Repositories

AdvertBytes(a) == EncodeAll(a.frames) \o TailBytes(a.tail)

\* The versions changeRefs is asked for: the v0 wildcard, v1 and v1.3.
Majors == {VersionZero, Version(1, -1, -1, FALSE), Version(1, 3, -1, FALSE)}

\* ----------------------------------------------------------------- handler
\* The configuration, fixed at startup by NewRepoRoot from the flags.

RepoHostPath == <<"h", "/", "u">>
VanityHostPath == <<"v", ".", "i", "o">>

Letters == <<"a", "b", "c", "d", "e", "f", "g", "h", "i", "j", "k", "l", "m", "n", "o", "p", "q", "r", "s", "t", "u", "v", "w", "x", "y", "z", "A", "B", "C", "D", "E", "F", "G", "H", "I", "J", "K", "L", "M", "N", "O", "P", "Q", "R", "S", "T", "U", "V", "W", "X", "Y", "Z">>

Digits == {DecDigits[k] : k \in 1..10}

Alnum == Digits \cup {Letters[k] : k \in 1..Len(Letters)}

\* The printable ASCII bytes, 0x20 to 0x7e, in order.
Printable == <<SP, "!", "DQUOTE", "#", "$", "%", "&", "'", "(", ")", "*", "+", ",", "-", ".", "/", "0", "1", "2", "3", "4", "5", "6", "7", "8", "9", ":", ";", "<", "=", ">", "?", "@", "A", "B", "C", "D", "E", "F", "G", "H", "I", "J", "K", "L", "M", "N", "O", "P", "Q", "R", "S", "T", "U", "V", "W", "X", "Y", "Z", "[", "BACKSLASH", "]", "^", "_", "BACKTICK", "a", "b", "c", "d", "e", "f", "g", "h", "i", "j", "k", "l", "m", "n", "o", "p", "q", "r", "s", "t", "u", "v", "w", "x", "y", "z", "{", "|", "}", "~">>

\* The byte a %XX escape stands for; a byte outside the printable range is
\* kept as one opaque token.
ByteOf(n) == IF n >= 32 /\ n <= 126 THEN Printable[n - 31] ELSE "OTHER"

\* The escapes of a path are well formed: % is followed by two hex digits.
RECURSIVE EscapesOK(_)
EscapesOK(s) ==
    IF s = <<>> THEN TRUE
    ELSE IF s[1] # "%" THEN EscapesOK(Tail(s))
    ELSE Len(s) >= 3 /\ IsHexDigit(s[2]) /\ IsHexDigit(s[3]) /\ EscapesOK(SubSeq(s, 4, Len(s)))

RECURSIVE Unescape(_)
Unescape(s) ==
    IF s = <<>> THEN <<>>
    ELSE IF s[1] # "%" THEN <<s[1]>> \o Unescape(Tail(s))
    ELSE <<ByteOf(HexNum(SubSeq(s, 2, 3)))>> \o Unescape(SubSeq(s, 4, Len(s)))

\* Everything before the first byte c, or all of s (strings.Cut).
Before(s, c) == IF IndexByte(s, c) < 0 THEN s ELSE Slice(s, 0, IndexByte(s, c))

\* url.Parse of a request path that starts with one slash: the fragment and
\* the query are cut off and the path is unescaped; a malformed escape is the
\* error. (The server's mux redirects paths with a double slash.)
UrlParse(p) ==
    LET raw == Before(Before(p, "#"), "?")
    IN  [ok |-> EscapesOK(raw), Path |-> IF EscapesOK(raw) THEN Unescape(raw) ELSE <<>>]

\* Length of the longest prefix of s whose bytes all lie in cs.
RECURSIVE RunLen(_, _)
RunLen(s, cs) == IF s # <<>> /\ s[1] \in cs THEN 1 + RunLen(Tail(s), cs) ELSE 0

\* The pattern without its version group: ^/([a-zA-Z0-9]+)\.?(.*)$, the
\* version group empty.
packagePatternNoVersion(path) ==
    LET n == IF path = <<>> THEN 0 ELSE RunLen(Tail(path), Alnum)
        afterName == SubSeq(path, n + 2, Len(path))
        afterDot == IF afterName # <<>> /\ afterName[1] = "." THEN Tail(afterName) ELSE afterName
        ok == Len(path) >= 2 /\ path[1] = "/" /\ n >= 1 /\ IndexByte(path, LF) < 0
    IN  [ok |-> ok,
         pkgName |-> IF ok THEN SubSeq(path, 2, n + 1) ELSE <<>>,
         version |-> <<>>,
         extra |-> IF ok THEN afterDot ELSE <<>>]

\* packagePattern.FindStringSubmatch(path):
\*   ^/([a-zA-Z0-9]+)\.?(v[1-9][0-9]*)?(.*)$
\* nil (ok false) when there is no match, else the three groups. Every
\* quantifier is greedy and what follows can always match, so each group takes
\* the longest run; "." does not match a newline.
packagePattern(path) ==
    LET n == IF path = <<>> THEN 0 ELSE RunLen(Tail(path), Alnum)
        afterName == SubSeq(path, n + 2, Len(path))
        afterDot == IF afterName # <<>> /\ afterName[1] = "." THEN Tail(afterName) ELSE afterName
        hasVer == Len(afterDot) >= 2 /\ afterDot[1] = "v" /\ IsDecDigit(afterDot[2]) /\ afterDot[2] # "0"
        vlen == IF hasVer THEN 1 + RunLen(Tail(afterDot), Digits) ELSE 0
        ok == Len(path) >= 2 /\ path[1] = "/" /\ n >= 1 /\ IndexByte(path, LF) < 0
    IN  [ok |-> ok,
         pkgName |-> IF ok THEN SubSeq(path, 2, n + 1) ELSE <<>>,
         version |-> IF ok THEN SubSeq(afterDot, 1, vlen) ELSE <<>>,
         extra |-> IF ok THEN SubSeq(afterDot, vlen + 1, Len(afterDot)) ELSE <<>>]

HealthCheckPath == <<"/", "h", "e", "a", "l", "t", "h", "-", "c", "h", "e", "c", "k">>
UploadPackPath == <<"/", "g", "i", "t", "-", "u", "p", "l", "o", "a", "d", "-", "p", "a", "c", "k">>
InfoRefsPath == <<"/", "i", "n", "f", "o", "/", "r", "e", "f", "s">>

\* root.NewRepo(name), with MajorVersion as the handler sets it next.
NewRepo(name, mv) ==
    [Name |-> name, MajorVersion |-> mv, FullVersion |-> InvalidVersion, AllVersions |-> <<>>]

NoRepo == NewRepo(<<>>, InvalidVersion)

\* SetVersions taking the first version of the list.
BestOfFirst(mv, full, all) == IF all = <<>> THEN full ELSE Head(all)

\* repo.SetVersions(all).
RECURSIVE BestOf(_, _, _)
BestOf(mv, full, all) ==
    IF all = <<>> THEN full
    ELSE LET v == Head(all)
         IN  BestOf(mv,
                    IF v.Major = mv.Major /\ v.Unstable = mv.Unstable /\ Less(full, v) THEN v ELSE full,
                    Tail(all))

SetVersions(repo, all) ==
    [repo EXCEPT !.AllVersions = all, !.FullVersion = BestOf(repo.MajorVersion, repo.FullVersion, all)]

RepoRoot(repo) == RepoHostPath \o <<"/">> \o repo.Name

VanityRoot(repo) == VanityHostPath \o <<"/">> \o repo.Name

GitTree(repo) ==
    IF repo.FullVersion = InvalidVersion THEN <<"m", "a", "s", "t", "e", "r">> ELSE VersionString(repo.FullVersion)

VanityVersionRoot(repo, version) ==
    LET v == VersionString([version EXCEPT !.Minor = -1, !.Patch = -1])
    IN  IF v = <<"v", "0">> THEN VanityRoot(repo) ELSE VanityRoot(repo) \o <<".">> \o v

VanityPath(repo) == VanityVersionRoot(repo, repo.MajorVersion)

\* What the upstream answers to httpClient.Get: no answer at all (a
\* transport error or the 10 s timeout), or a status with a body that may
\* fail while it is read.
Answer(kind, status, body) == [kind |-> kind, status |-> status, body |-> body]

\* fetchRefs(repo).
fetchRefs(ans) ==
    IF ans.kind = "transport" THEN Returned(<<>>, <<>>, ErrTalk)
    ELSE IF ans.status \in {401, 404} THEN Returned(<<>>, <<>>, ErrNoRepo)
    ELSE IF ans.status # 200 THEN Returned(<<>>, <<>>, ErrStatus)
    ELSE IF ans.kind = "readerror" THEN Returned(<<>>, <<>>, ErrRead)
    ELSE Returned(ans.body, <<>>, ErrNone)

\* A response as the client sees it. resp.Write without WriteHeader is a 200.
Response(status, kind, body) == [status |-> status, kind |-> kind, body |-> body]

sendNotFound(kind, body) == Response(404, kind, body)

sendError(kind) == Response(500, kind, <<>>)

\* The handler's switch on err: the response for a failed fetch or rewrite.
ErrorResponse(err, repo) ==
    IF err = ErrNoRepo THEN sendNotFound("Git repository not found", RepoRoot(repo))
    ELSE IF err = ErrNoVersion THEN sendNotFound("has no branch or tag", RepoRoot(repo))
    ELSE Response(502, "Cannot obtain refs from Git", <<>>)

\* The handler's switch on extra and the go-get test, once err is nil.
SuccessResponse(extra, goget, changed, repo) ==
    IF extra = UploadPackPath THEN Response(301, "Location", RepoRoot(repo) \o UploadPackPath)
    ELSE IF extra = InfoRefsPath THEN Response(200, "advertisement", changed)
    ELSE IF goget THEN Response(200, "go-get html", VanityPath(repo) \o <<SP>> \o RepoRoot(repo) \o <<SP>> \o GitTree(repo))
    ELSE sendNotFound("Missing ?go-get=1 parameter.", <<>>)

\* ---------------------------------------------------------------- requests
\* The requests a client may send and the answers the upstream may give.

Request(path, goget) == [path |-> path, goget |-> goget]

Requests ==
    { Request(HealthCheckPath, FALSE),
      Request(<<"/">>, FALSE),
      Request(<<"/", "-", "x">>, FALSE),
      Request(<<"/", "%", "z", "z">>, FALSE),
      Request(<<"/", "p">>, TRUE),
      Request(<<"/", "p", "/", "i", "n", "f", "o", "/", "r", "e", "f", "s">>, FALSE),
      Request(<<"/", "p", ".", "v", "1">>, FALSE),
      Request(<<"/", "p", ".", "v", "1">>, TRUE),
      Request(<<"/", "p", ".", "v", "1", "/", "i", "n", "f", "o", "/", "r", "e", "f", "s">>, FALSE),
      Request(<<"/", "p", ".", "v", "1", "/", "g", "i", "t", "-", "u", "p", "l", "o", "a", "d", "-", "p", "a", "c", "k">>, FALSE),
      Request(<<"/", "p", ".", "v", "2", "/", "i", "n", "f", "o", "/", "r", "e", "f", "s">>, FALSE),
      Request(<<"/", "p", ".", "v", "1", ".", "3", "/", "i", "n", "f", "o", "/", "r", "e", "f", "s">>, FALSE),
      Request(<<"/", "p", ".", "v", "1", "-", "u", "n", "s", "t", "a", "b", "l", "e", "/", "i", "n", "f", "o", "/", "r", "e", "f", "s">>, FALSE) }

\* A repository with branches v1 and v2 and an annotated v1.3.0 tag; two
\* corrupted advertisements; one that lists master before HEAD.
UpstreamAdverts ==
    << Advert(<<1, 3, 4, 5, 8, 6, 7>>, "none"),
       Advert(<<1, 3>>, "badhex"),
       Advert(<<1, 3>>, "trunc"),
       Advert(<<1, 4, 3, 5>>, "none") >>

\* The answers the upstream may give, and their numbers.
Answers ==
    << Answer("transport", 0, <<>>),
       Answer("response", 401, <<>>),
       Answer("response", 404, <<>>),
       Answer("response", 500, <<>>),
       Answer("readerror", 200, <<>>) >>
    \o [k \in 1..Len(UpstreamAdverts) |-> Answer("response", 200, AdvertBytes(UpstreamAdverts[k]))]

Upstream == 1..Len(Answers)

Reqs == 1..NumReqs

\* ------------------------------------------------------------------- state

VARIABLES
    advert,   \* the advertisement as sent, frame by frame
    crData,     \* changeRefs: its argument data
    crMajor,    \* changeRefs: its argument major
    scan,     \* changeRefs: its locals
    ret,      \* changeRefs: what it returned, once it has
    pc,       \* per handler invocation: idle, fetching, done or panicked
    req,      \* per invocation: the request it serves
    loc,      \* per invocation: its locals (the repo pointer, extra, and
              \* changed, versions and err once the fetch is over)
    heap,     \* the Repo objects, by address
    answer,   \* per invocation: which of Answers the upstream gave (0: none yet)
    resp,     \* per invocation: the responses written, in order
    fetches,  \* per invocation: the calls of httpClient.Get made
    pkt       \* changeRefs: the frames it writes, by their lengths

crVars == <<advert, crData, crMajor, scan, ret, pkt>>

hVars == <<pc, req, loc, heap, answer, resp, fetches>>

vars == <<advert, crData, crMajor, scan, ret, pc, req, loc, heap, answer, resp, fetches, pkt>>

NotReturned == Returned(<<>>, <<>>, "running")

NoRequest == Request(<<>>, FALSE)

NoAnswer == 0

\* The writing of the synthesized frames is not followed.
NoPkt == [stage |-> "none"]

Locals(addr, extra, r) == [addr |-> addr, extra |-> extra, changed |-> r.changed, versions |-> r.versions, err |-> r.err]

\* No request has arrived yet.
HandlerIdle ==
    /\ pc = [r \in Reqs |-> "idle"]
    /\ req = [r \in Reqs |-> NoRequest]
    /\ loc = [r \in Reqs |-> Locals(0, <<>>, NotReturned)]
    /\ heap = [a \in Reqs |-> NoRepo]
    /\ answer = [r \in Reqs |-> NoAnswer]
    /\ resp = [r \in Reqs |-> <<>>]
    /\ fetches = [r \in Reqs |-> 0]

\* changeRefs is entered with any advertisement and any of the versions.
InitCR ==
    /\ \E a \in Adverts, m \in Majors :
        /\ advert = a
        /\ crData = AdvertBytes(a)
        /\ crMajor = m
        /\ scan = ScanLoop(AdvertBytes(a), ScanInit)
        /\ ret = NotReturned
    /\ pkt = NoPkt
    /\ HandlerIdle

\* One iteration of the scan loop.
ScanStep ==
    /\ scan.st = "scan"
    /\ scan' = ScanLoop(crData, ScanIter(crData, crMajor, scan))
    /\ UNCHANGED <<advert, crData, crMajor, ret, pkt>>
    /\ UNCHANGED hVars

\* The loop is over (or has failed): changeRefs decides and returns.
Return ==
    /\ scan.st # "scan"
    /\ ret = NotReturned
    /\ ret' = PostScan(crData, crMajor, scan)
    /\ UNCHANGED <<advert, crData, crMajor, scan, pkt>>
    /\ UNCHANGED hVars

NextCR == ScanStep \/ Return

SpecCR == InitCR /\ [][NextCR]_vars

\* ----------------------------------------------------------- the handler
\* The server is up, changeRefs not entered.
Init ==
    /\ advert = Advert(<<>>, "none")
    /\ crData = <<>>
    /\ crMajor = VersionZero
    /\ scan = ScanInit
    /\ ret = NotReturned
    /\ pkt = NoPkt
    /\ HandlerIdle

\* The handler up to the fetch: which of its early returns a request takes,
\* and the locals it has then. The tests are the handler's, in its order.
RouteOf(q) ==
    LET u == UrlParse(q.path)
        p == packagePattern(u.Path)
        version == IF p.version = <<>> THEN <<"v", "0">> ELSE p.version
        pv == parseVersion(version)
        at(branch) == [branch |-> branch, pkgName |-> p.pkgName, version |-> version,
                       MajorVersion |-> pv.v, extra |-> p.extra]
    IN  IF q.path = HealthCheckPath THEN at("health-check")
        ELSE IF q.path = <<"/">> THEN at("missing name")
        ELSE IF ~u.ok THEN at("parse failure")
        ELSE IF ~p.ok THEN at("no match")
        ELSE IF ~pv.ok THEN at("invalid version")
        ELSE at("fetch")

\* RouteOf tabulated over the requests (@@ has TLC store the table instead of
\* working an entry out at each use).
Route == [q \in Requests |-> RouteOf(q)] @@ <<>>

\* The handler ends having written rs.
Finish(r, q, rs) ==
    /\ pc' = [pc EXCEPT ![r] = "done"]
    /\ req' = [req EXCEPT ![r] = q]
    /\ resp' = [resp EXCEPT ![r] = resp[r] \o rs]
    /\ UNCHANGED <<loc, heap, answer, fetches>>

\* A request arrives and takes the given branch of the handler.
Arrives(q, branch) == Route[q].branch = branch

\* GET /health-check.
HealthCheck(r) ==
    /\ pc[r] = "idle"
    /\ \E q \in Requests :
        /\ Arrives(q, "health-check")
        /\ Finish(r, q, <<Response(200, "ok", <<>>)>>)
    /\ UNCHANGED crVars

\* GET /.
MissingName(r) ==
    /\ pc[r] = "idle"
    /\ \E q \in Requests :
        /\ Arrives(q, "missing name")
        /\ Finish(r, q, <<sendNotFound("Missing package name.", <<>>)>>)
    /\ UNCHANGED crVars

\* url.Parse fails on the path.
ParseFailure(r) ==
    /\ pc[r] = "idle"
    /\ \E q \in Requests :
        /\ Arrives(q, "parse failure")
        /\ Finish(r, q, <<sendError("Failed to parse request path")>>)
    /\ UNCHANGED crVars

\* The path does not match packagePattern: p is nil and p[1] panics, index
\* out of range. The server recovers the panic and closes the connection;
\* nothing was written.
NoMatch(r) ==
    /\ pc[r] = "idle"
    /\ \E q \in Requests :
        /\ Arrives(q, "no match")
        /\ pc' = [pc EXCEPT ![r] = "panicked"]
        /\ req' = [req EXCEPT ![r] = q]
        /\ UNCHANGED <<loc, heap, answer, resp, fetches>>
    /\ UNCHANGED crVars

\* NewRepo handing out one Repo object to every caller.
RepoAddrShared(r) == 1

\* &Repo{...}: each call of NewRepo allocates its own object.
RepoAddr(r) == r

\* fetchRefs sending its GET a second time.
GetTwice(r) == fetches' = [fetches EXCEPT ![r] = fetches[r] + 2]

\* fetchRefs is entered: it sends its one GET and the handler blocks on it.
Get(r) == fetches' = [fetches EXCEPT ![r] = fetches[r] + 1]

\* The path names a package: the Repo is made, the version parsed, and
\* fetchRefs called.
StartFetch(r) ==
    /\ pc[r] = "idle"
    /\ \E q \in Requests : \E rt \in {Route[q]} :
        /\ rt.branch \in {"invalid version", "fetch"}
        /\ IF rt.branch = "invalid version"
           THEN Finish(r, q, <<sendNotFound("Version improperly considered invalid", rt.version)>>)
           ELSE /\ pc' = [pc EXCEPT ![r] = "fetching"]
                /\ req' = [req EXCEPT ![r] = q]
                /\ heap' = [heap EXCEPT ![RepoAddr(r)] = NewRepo(rt.pkgName, rt.MajorVersion)]
                /\ loc' = [loc EXCEPT ![r] = Locals(RepoAddr(r), rt.extra, NotReturned)]
                /\ Get(r)
                /\ UNCHANGED <<answer, resp>>
    /\ UNCHANGED crVars

\* The handler from fetchRefs' return to the end of the switch on err: the
\* locals changed, versions and err. changeRefs is called, and its results
\* assigned, only when the fetch succeeded.
FetchAndChange(ans, mv) ==
    CHOOSE c \in {IF f.err = ErrNone THEN changeRefs(f.changed, mv) ELSE f : f \in {fetchRefs(ans)}} : TRUE

\* The versions a request path can ask for, and FetchAndChange tabulated
\* over them and the upstream's answers.
RequestVersions == {Route[q].MajorVersion : q \in Requests} \ {InvalidVersion}

FetchAndChangeTable == [x \in Upstream \X RequestVersions |-> FetchAndChange(Answers[x[1]], x[2])] @@ <<>>

\* repo.SetVersions(versions) runs when fetchRefs returned no error.
AfterFetch(ans, repo, c) == IF ans.kind = "response" /\ ans.status = 200 THEN SetVersions(repo, c.versions) ELSE repo

\* What the handler writes once err is known.
Respond(q, extra, c, repo) ==
    IF c.err = ErrNone THEN SuccessResponse(extra, q.goget, c.changed, repo) ELSE ErrorResponse(c.err, repo)

\* The GET is over: the rest of the handler runs, from fetchRefs' return to
\* the response. A panic in changeRefs unwinds the handler before SetVersions.
FetchReturn(r) ==
    /\ pc[r] = "fetching"
    /\ \E ans \in Upstream : \E c \in {FetchAndChangeTable[<<ans, heap[loc[r].addr].MajorVersion>>]} :
        /\ answer' = [answer EXCEPT ![r] = ans]
        /\ loc' = [loc EXCEPT ![r] = Locals(loc[r].addr, loc[r].extra, c)]
        /\ IF c.err = Panic
           THEN /\ pc' = [pc EXCEPT ![r] = "panicked"]
                /\ UNCHANGED <<heap, resp>>
           ELSE \E repo \in {AfterFetch(Answers[ans], heap[loc[r].addr], c)} :
                /\ pc' = [pc EXCEPT ![r] = "done"]
                /\ heap' = [heap EXCEPT ![loc[r].addr] = repo]
                /\ resp' = [resp EXCEPT ![r] = Append(resp[r], Respond(req[r], loc[r].extra, c, repo))]
    /\ UNCHANGED <<req, fetches>>
    /\ UNCHANGED crVars

Next ==
    \E r \in Reqs :
        \/ HealthCheck(r)
        \/ MissingName(r)
        \/ ParseFailure(r)
        \/ NoMatch(r)
        \/ StartFetch(r)
        \/ FetchReturn(r)

Spec == Init /\ [][Next]_vars

\* ------------------------------------------------- the synthesized frames
\* The writing of the two frames, followed by the lengths alone: the original
\* HEAD frame is hsize bytes long by its length field, with its NUL right
\* after the name and a closing newline; what lies between the two is the
\* capabilities (renaming symref= to oldref= keeps their length).

\* The most a length field of four hex digits can say.
MaxFrameSize == 65535

\* A HEAD frame with no capabilities: the length field, the object id, a
\* space, the name and the newline.
BareHeadSize == 4 + HashLen + 1 + Len(HEADName) + 1

HeadSizes == (BareHeadSize..(BareHeadSize + SizeSpan)) \cup ((MaxFrameSize - SizeSpan)..MaxFrameSize)

\* The names a rewrite may have selected.
LineNames == {Catalogue[5].name, Catalogue[6].name}

\* caps, by its length: sdata[hlinei+i+1:hlinej-1], i the offset of the NUL.
LineCaps(hsize) == IF hsize > BareHeadSize THEN Rep("x", (hsize - 1) - BareHeadSize) ELSE <<>>

\* fmt.Fprintf(&buf, "%04x%s", 4+len(line), line), as the scan reads it back:
\* the length field written, the length of the line, and the frame length a
\* reader takes from the first four bytes (-1 when they are no number).
Written(stage, hsize, vrefname, line) ==
    [stage |-> stage, hsize |-> hsize, vrefname |-> vrefname,
     field |-> SubSeq(PktLine(line), 1, Len(PktLine(line)) - Len(line)),
     lineLen |-> Len(line),
     frameLen |-> Len(PktLine(line)),
     readLen |-> IF ParseInt(SubSeq(PktLine(line), 1, 4)).ok THEN ParseInt(SubSeq(PktLine(line), 1, 4)).val ELSE -1]

InitLine ==
    /\ advert = Advert(<<>>, "none")
    /\ crData = <<>>
    /\ crMajor = VersionZero
    /\ scan = ScanInit
    /\ ret = NotReturned
    /\ HandlerIdle
    /\ \E hsize \in HeadSizes, name \in LineNames :
         pkt = [stage |-> "caps", hsize |-> hsize, vrefname |-> name]

\* The HEAD line is put together and written.
WriteHead ==
    /\ pkt.stage = "caps"
    /\ pkt' = Written("head", pkt.hsize, pkt.vrefname,
                       HeadLine(Rep("0", HashLen), pkt.vrefname, LineCaps(pkt.hsize)))
    /\ UNCHANGED <<advert, crData, crMajor, scan, ret>>
    /\ UNCHANGED hVars

\* The master line is put together and written.
WriteMaster ==
    /\ pkt.stage = "head"
    /\ pkt' = Written("master", pkt.hsize, pkt.vrefname, MasterLine(Rep("0", HashLen)))
    /\ UNCHANGED <<advert, crData, crMajor, scan, ret>>
    /\ UNCHANGED hVars

NextLine == WriteHead \/ WriteMaster

SpecLine == InitLine /\ [][NextLine]_vars

\* ------------------------------------------------- reading an advertisement
\* The frames of a pkt-line stream, read on their own: a frame's payload, the
\* object id it starts with and the name that follows it.

RECURSIVE FramesFrom(_, _)
FramesFrom(b, i) ==
    IF i + 4 > Len(b) THEN <<>>
    ELSE LET n == HexNum(Slice(b, i, i + 4))
             j == IF n < 4 THEN i + 4 ELSE i + n
         IN  <<SubSeq(b, i + 5, j)>> \o FramesFrom(b, j)

FrameHash(p) == SubSeq(p, 1, HashLen)

FrameName(p) ==
    IF Len(p) > HashLen + 1 /\ p[HashLen + 1] = SP
    THEN LET rest == SubSeq(p, HashLen + 2, Len(p))
             e == IndexAny(rest, {LF, NUL})
         IN  IF e < 0 THEN rest ELSE SubSeq(rest, 1, e)
    ELSE <<>>

Named(fs, name) == {k \in DOMAIN fs : FrameName(fs[k]) = name}

\* The frames changeRefs returned.
OutFrames == FramesFrom(ret.changed, 0)

\* What the advertisement lists, frame by frame as it was put together.
Sent == advert.frames

FullHash(f) == Rep(f.hash, HashLen)

RefKinds == {"ref", "nolf", "nul", "nullf"}

IsVersionName(n) == HasPrefix(n, HeadsVPrefix) \/ HasPrefix(n, TagsVPrefix)

Unpeeled(n) == IF HasSuffix(n, PeelSuffix) THEN SubSeq(n, 1, Len(n) - Len(PeelSuffix)) ELSE n

\* The name after refs/heads/ or refs/tags/.
ShortName(n) ==
    IF HasPrefix(n, HeadsPrefix) THEN SubSeq(n, Len(HeadsPrefix) + 1, Len(n))
    ELSE SubSeq(n, Len(TagsVPrefix), Len(n))

IsVersionRef(f) == f.kind \in RefKinds /\ IsVersionName(f.name) /\ parseVersion(ShortName(Unpeeled(f.name))).ok

RefVersion(f) == parseVersion(ShortName(Unpeeled(f.name))).v

\* The positions of the references the requested version contains.
Candidates(fs, m) == {k \in DOMAIN fs : IsVersionRef(fs[k]) /\ Contains(m, RefVersion(fs[k]))}

\* The best match: none is strictly greater, and of the equal ones it is the last.
Best(fs, m) ==
    {k \in Candidates(fs, m) :
        \A o \in Candidates(fs, m) :
            /\ ~Less(RefVersion(fs[k]), RefVersion(fs[o]))
            /\ RefVersion(fs[o]) = RefVersion(fs[k]) => o <= k}

HasHEAD(fs) == \E k \in DOMAIN fs : fs[k].kind \in RefKinds /\ fs[k].name = HEADName

WellFramed == advert.tail = "none"

Rewritten == ret.err = ErrNone /\ crMajor # VersionZero

\* ----------------------------------------------------- claims on changeRefs

\* C1: after a successful rewrite (nil error, requested version not v0) of a
\* well-framed advertisement, the output holds exactly one frame named HEAD
\* and exactly one named refs/heads/master, both with the object id of the
\* best-match reference.
C1_RewriteInvariant ==
    (WellFramed /\ Rewritten) =>
        /\ Cardinality(Named(OutFrames, HEADName)) = 1
        /\ Cardinality(Named(OutFrames, MasterName)) = 1
        /\ \A k \in Named(OutFrames, HEADName) \cup Named(OutFrames, MasterName) :
               \E b \in Best(Sent, crMajor) : FrameHash(OutFrames[k]) = FullHash(Sent[b])

\* The advertisement opens with refs/heads/master: the rewrite has kept that
\* frame and added its own.
C1_TwoMasters ==
    /\ WellFramed /\ Rewritten
    /\ Len(Sent) = 3 /\ Sent[1].name = MasterName /\ Sent[2].name = HEADName
    /\ Cardinality(Named(OutFrames, MasterName)) = 2
    /\ \E k \in Named(OutFrames, MasterName) : FrameHash(OutFrames[k]) # scan.vrefhash

\* C2: when the scan is over, the selected reference is a refs/heads/v* or
\* refs/tags/v* reference whose Version the requested Version contains, no
\* contained reference has a strictly greater Version, and of those with an
\* equal Version it is the last in stream order; nothing is selected when no
\* reference is contained.
C2_BestMatch ==
    scan.st = "scanned" =>
        IF Candidates(Sent, crMajor) = {}
        THEN scan.vrefhash = <<>> /\ ~IsValid(scan.vrefv)
        ELSE \E b \in Best(Sent, crMajor) :
               /\ scan.vrefv = RefVersion(Sent[b])
               /\ scan.vrefhash = FullHash(Sent[b])
               /\ scan.vrefname = Unpeeled(Sent[b].name)

\* Two contained references of one Version were scanned, and the later one,
\* with another object id, is the one selected.
C2_TieSeen ==
    /\ scan.st = "scanned"
    /\ \E a, b \in Candidates(Sent, crMajor) :
         /\ a < b
         /\ RefVersion(Sent[a]) = RefVersion(Sent[b])
         /\ Sent[a].hash # Sent[b].hash
         /\ scan.vrefhash = FullHash(Sent[b])
    /\ \E c \in Candidates(Sent, crMajor) : Less(RefVersion(Sent[c]), scan.vrefv)

\* The pairs of a tag frame and its peeled counterpart whose Version is the
\* one selected.
SelectedTagPairs ==
    {x \in (DOMAIN Sent) \X (DOMAIN Sent) :
        /\ HasPrefix(Sent[x[1]].name, TagsVPrefix)
        /\ Sent[x[2]].name = Sent[x[1]].name \o PeelSuffix
        /\ IsVersionRef(Sent[x[1]])
        /\ RefVersion(Sent[x[1]]) = scan.vrefv}

\* The frames the rewrite writes: a HEAD frame and, right after it, a
\* refs/heads/master frame, both with object id h.
WritesHash(h) ==
    \E k \in Named(OutFrames, HEADName) :
        /\ FrameHash(OutFrames[k]) = h
        /\ k + 1 \in Named(OutFrames, MasterName)
        /\ FrameHash(OutFrames[k + 1]) = h

\* No reference of the same Version comes after frame k.
LastOfItsVersion(k) ==
    \A o \in DOMAIN Sent : (IsVersionRef(Sent[o]) /\ RefVersion(Sent[o]) = RefVersion(Sent[k])) => o <= k

\* C3 as stated: for a selected version V, when the advertisement holds a tag
\* frame refs/tags/V with object id X and its peeled counterpart with object
\* id Y, the rewritten HEAD and refs/heads/master frames carry Y and the
\* recorded name is the tag name without the peel suffix.
C3_PeeledPrecedence ==
    (WellFramed /\ Rewritten) =>
        \A x \in SelectedTagPairs :
            /\ WritesHash(FullHash(Sent[x[2]]))
            /\ scan.vrefname = Sent[x[1]].name

\* C3 amended: the same, provided the peeled frame is the last reference of
\* Version V in stream order (git lists it right after its tag).
C3_PeeledPrecedenceWhenLast ==
    (WellFramed /\ Rewritten) =>
        \A x \in SelectedTagPairs :
            LastOfItsVersion(x[2]) =>
                /\ WritesHash(FullHash(Sent[x[2]]))
                /\ scan.vrefname = Sent[x[1]].name

\* A rewrite with the tag's Version selected, the peeled frame after the tag
\* frame, the two with different object ids.
C3_PeeledSelected ==
    /\ WellFramed /\ Rewritten
    /\ \E x \in SelectedTagPairs :
         /\ x[1] < x[2] /\ LastOfItsVersion(x[2])
         /\ Sent[x[1]].hash # Sent[x[2]].hash
         /\ WritesHash(FullHash(Sent[x[2]]))

\* C4: for a requested version other than v0 and a well-framed advertisement,
\* changeRefs returns ErrNoVersion if and only if the advertisement has no
\* HEAD frame or no version reference the requested Version contains; with a
\* HEAD frame, wherever it sits, and a contained reference it returns a
\* rewritten advertisement and no error.
C4_NoVersionIff ==
    (WellFramed /\ crMajor # VersionZero /\ ret # NotReturned) =>
        /\ ret.err = ErrNoVersion <=> (~HasHEAD(Sent) \/ Candidates(Sent, crMajor) = {})
        /\ (HasHEAD(Sent) /\ Candidates(Sent, crMajor) # {}) => (ret.err = ErrNone /\ ret.changed # <<>>)

\* The advertisement opens with the HEAD frame and lists a contained
\* reference, and changeRefs has returned ErrNoVersion.
C4_HeadFirstNotFound ==
    /\ WellFramed /\ crMajor # VersionZero
    /\ Len(Sent) = 2 /\ Sent[1].name = HEADName
    /\ Candidates(Sent, crMajor) # {}
    /\ ret.err = ErrNoVersion

\* C5: when the requested version is v0 and the well-framed advertisement
\* holds no refs/heads/v* or refs/tags/v* reference, changeRefs returns the
\* input bytes, an empty version list and no error.
C5_ZeroPassThrough ==
    (WellFramed /\ crMajor = VersionZero /\ ret # NotReturned
        /\ \A k \in DOMAIN Sent : ~IsVersionName(Sent[k].name)) =>
        /\ ret.changed = AdvertBytes(advert)
        /\ ret.versions = <<>>
        /\ ret.err = ErrNone

\* v0 was asked of an advertisement with a banner and a master frame but no
\* HEAD frame and no version reference, and the bytes came back.
C5_PassedThrough ==
    /\ WellFramed /\ crMajor = VersionZero
    /\ \A k \in DOMAIN Sent : ~IsVersionName(Sent[k].name)
    /\ ~HasHEAD(Sent)
    /\ \E k \in DOMAIN Sent : Sent[k].name = MasterName
    /\ ret.err = ErrNone /\ ret.changed = crData /\ Len(crData) > 0

\* C6: when a frame the scan reaches has a length header that is not
\* hexadecimal, or a length that ends the frame past the end of the buffer,
\* changeRefs returns a framing error that is neither ErrNoVersion nor
\* ErrNoRepo, no bytes and no versions, whatever version was requested, v0
\* included; the handler answers such a return with 502 on every path.
C6_FramingError ==
    (advert.tail \in {"badhex", "trunc"} /\ ret # NotReturned) =>
        /\ ret.err = (IF advert.tail = "badhex" THEN ErrParseSize ELSE ErrIncomplete)
        /\ ret.err \notin {ErrNone, ErrNoVersion, ErrNoRepo, Panic}
        /\ ret.changed = <<>> /\ ret.versions = <<>>
        /\ \A q \in Requests : Respond(q, Route[q].extra, ret, NoRepo).status = 502

\* v0 was asked of an advertisement whose frames list a version reference and
\* whose last frame is cut short, and the framing error came back.
C6_TruncatedForZero ==
    /\ advert.tail = "trunc" /\ crMajor = VersionZero
    /\ \E k \in DOMAIN Sent : IsVersionRef(Sent[k])
    /\ HasHEAD(Sent)
    /\ ret.err = ErrIncomplete

\* ----------------------------------------------------- claims on the handler

Over(r) == pc[r] \in {"done", "panicked"}

Fetching(r) == pc[r] # "idle" /\ Route[req[r]].branch = "fetch"

\* The status the outcome of a fetch calls for, whatever the subpath.
FailureStatus(a, err) ==
    IF a.kind = "response" /\ a.status \in {401, 404} THEN 404
    ELSE IF a.kind # "response" \/ a.status # 200 THEN 502
    ELSE IF err = ErrNoVersion THEN 404
    ELSE 502

\* The response a success calls for, by subpath and query.
SuccessShape(q, extra, changed) ==
    IF extra = UploadPackPath THEN [status |-> 301, body |-> <<>>]
    ELSE IF extra = InfoRefsPath THEN [status |-> 200, body |-> changed]
    ELSE IF q.goget THEN [status |-> 200, body |-> <<>>]
    ELSE [status |-> 404, body |-> <<>>]

\* C7: the outcome of fetch and rewrite decides before the subpath does: an
\* upstream 401 or 404 yields 404, ErrNoVersion 404, any other fetch or
\* framing error 502, and only a success yields 301 for /git-upload-pack,
\* 200 with the rewritten advertisement for /info/refs, 200 HTML for go-get=1
\* and 404 otherwise; every request gets exactly one of these responses.
C7_Classification ==
    \A r \in Reqs :
        (Over(r) /\ Fetching(r)) =>
            /\ Len(resp[r]) = 1
            /\ IF loc[r].err = ErrNone
               THEN /\ resp[r][1].status = SuccessShape(req[r], loc[r].extra, loc[r].changed).status
                    /\ loc[r].extra = InfoRefsPath => resp[r][1].body = loc[r].changed
               ELSE resp[r][1].status = FailureStatus(Answers[answer[r]], loc[r].err)

\* The same of the requests that were answered.
C7_ClassificationOfAnswered ==
    \A r \in Reqs :
        (pc[r] = "done" /\ Fetching(r)) =>
            /\ Len(resp[r]) = 1
            /\ IF loc[r].err = ErrNone
               THEN /\ resp[r][1].status = SuccessShape(req[r], loc[r].extra, loc[r].changed).status
                    /\ loc[r].extra = InfoRefsPath => resp[r][1].body = loc[r].changed
               ELSE resp[r][1].status = FailureStatus(Answers[answer[r]], loc[r].err)

\* The upstream answered 200 with an advertisement that lists
\* refs/heads/master before HEAD: changeRefs panicked and the request ended
\* with nothing written.
C7_Unanswered ==
    \E r \in Reqs :
        /\ pc[r] = "panicked" /\ Fetching(r)
        /\ Answers[answer[r]].status = 200
        /\ resp[r] = <<>>

\* A path that is neither /health-check nor / and is no package path.
Malformed(path) ==
    /\ path # HealthCheckPath
    /\ path # <<"/">>
    /\ ~UrlParse(path).ok \/ ~packagePattern(UrlParse(path).Path).ok

\* C8: every request whose path is malformed is answered with a 500 and a
\* static message; the handler never ends such a request without a response.
C8_MalformedPath ==
    \A r \in Reqs :
        (Over(r) /\ Malformed(req[r].path)) =>
            resp[r] = <<sendError("Failed to parse request path")>>

\* The request /-x has ended with nothing written.
C8_NoResponse ==
    \E r \in Reqs :
        /\ pc[r] = "panicked"
        /\ req[r].path = <<"/", "-", "x">>
        /\ resp[r] = <<>>

\* C9: a request that names a package makes exactly one upstream fetch, over
\* before the response is written, and none after it, failed or not;
\* requests to /health-check and to / make none; identical requests each
\* make their own.
C9_OneFetch ==
    \A r \in Reqs :
        /\ Fetching(r) => fetches[r] = 1
        /\ (Fetching(r) /\ pc[r] = "fetching") => (resp[r] = <<>> /\ answer[r] = NoAnswer)
        /\ (Fetching(r) /\ resp[r] # <<>>) => answer[r] \in Upstream
        /\ (pc[r] # "idle" /\ Route[req[r]].branch \in {"health-check", "missing name"}) =>
               (fetches[r] = 0 /\ answer[r] = NoAnswer)
        /\ pc[r] = "idle" => fetches[r] = 0

\* Two identical requests have been served, the first after a failed fetch,
\* and a request to /health-check has been served too.
C9_EachItsOwn ==
    /\ NumReqs >= 2
    /\ pc[1] = "done" /\ pc[2] = "done"
    /\ req[1] = req[2] /\ Fetching(1)
    /\ Answers[answer[1]].kind = "transport" /\ resp[1][1].status = 502
    /\ resp[2][1].status = 200
    /\ fetches[1] = 1 /\ fetches[2] = 1

\* The response to request q when it is the only one and the upstream gives
\* its answer number a: none when changeRefs panics.
Alone(q, a) ==
    LET rt == Route[q]
        c == FetchAndChangeTable[<<a, rt.MajorVersion>>]
        repo == AfterFetch(Answers[a], NewRepo(rt.pkgName, rt.MajorVersion), c)
    IN  IF c.err = Panic THEN <<>> ELSE <<Respond(q, rt.extra, c, repo)>>

\* C10: however many invocations run at once and however they interleave,
\* each request gets the response it would get alone, decided by its path
\* and query, the configured roots and its own fetch result; no two
\* invocations share a Repo.
C10_Independent ==
    /\ \A r \in Reqs : (Over(r) /\ Fetching(r)) => resp[r] = Alone(req[r], answer[r])
    /\ \A r, o \in Reqs : (r # o /\ Fetching(r) /\ Fetching(o)) => loc[r].addr # loc[o].addr

\* Two requests for different versions were in flight together, and each
\* got the response for its own version.
C10_Overlapped ==
    /\ NumReqs >= 2
    /\ pc[1] = "done" /\ pc[2] = "fetching"
    /\ Fetching(1) /\ Fetching(2)
    /\ heap[loc[1].addr].MajorVersion # heap[loc[2].addr].MajorVersion
    /\ Answers[answer[1]].status = 200
    /\ resp[1][1].status = 200 /\ resp[1][1].body # <<>>

\* ------------------------------------------------------- claims on v0

\* C13 as stated: for a v0 request changeRefs returns the input unchanged only
\* when the advertisement holds no version reference at all; when references
\* with a valid version exist it decides as for any version: ErrNoVersion
\* when there is no HEAD frame or no reference v0 contains, else HEAD and
\* refs/heads/master rewritten to the highest contained reference.
C13_ZeroNormalDecision ==
    (WellFramed /\ crMajor = VersionZero /\ ret # NotReturned) =>
        IF \A k \in DOMAIN Sent : ~IsVersionRef(Sent[k])
        THEN ret.err = ErrNone /\ ret.changed = crData
        ELSE IF ~HasHEAD(Sent) \/ Candidates(Sent, crMajor) = {}
             THEN ret.err = ErrNoVersion
             ELSE /\ ret.err = ErrNone
                  /\ \E b \in Best(Sent, crMajor) : WritesHash(FullHash(Sent[b]))

\* C13 amended: for a v0 request changeRefs returns the input bytes unchanged,
\* an empty version list and no error whenever the scan reaches the end of
\* the input, whether or not version references exist, v0 ones included, and
\* whether or not there is a HEAD frame; it never rewrites and never returns
\* ErrNoVersion.
C13_ZeroAlwaysPassThrough ==
    (crMajor = VersionZero /\ ret # NotReturned) =>
        /\ scan.st = "scanned" => ret = Returned(crData, <<>>, ErrNone)
        /\ ret.err # ErrNoVersion
        /\ ret.err = ErrNone => ret.changed = AdvertBytes(advert)

\* v0 was asked of a repository with HEAD, master and a v0.1.0 tag: the scan
\* found the version and selected the tag, and the bytes came back as sent.
C13_ZeroWithVersions ==
    /\ WellFramed /\ crMajor = VersionZero
    /\ HasHEAD(Sent) /\ scan.hlinei > 0
    /\ Candidates(Sent, crMajor) # {}
    /\ scan.versions # <<>> /\ scan.vrefhash # <<>>
    /\ ret = Returned(crData, <<>>, ErrNone)

\* --------------------------------------------- claims on the rewritten frames

\* sub occurs in s.
HasSub(s, sub) == \E k \in 0..(Len(s) - Len(sub)) : SubSeq(s, k + 1, k + Len(sub)) = sub

SelectedIsTag == HasPrefix(scan.vrefname, TagsVPrefix)

SelectedIsBranch == HasPrefix(scan.vrefname, HeadsPrefix)

\* The output has a HEAD frame with the object id of a best match b, directly
\* followed by a refs/heads/master frame with the same object id.
HeadOfBest(k, b) ==
    /\ FrameHash(OutFrames[k]) = FullHash(Sent[b])
    /\ k + 1 \in Named(OutFrames, MasterName)
    /\ FrameHash(OutFrames[k + 1]) = FullHash(Sent[b])

\* C11 as stated: when the selected reference is a tag, the rewritten HEAD
\* frame carries the object id of the highest tag (its peeled id), advertises
\* the capability symref=HEAD:refs/heads/master, and refs/heads/master is
\* rewritten to the same id.
C11_TagSymrefMaster ==
    (WellFramed /\ Rewritten /\ SelectedIsTag) =>
        \E b \in Best(Sent, crMajor) : \E k \in Named(OutFrames, HEADName) :
            /\ HeadOfBest(k, b)
            /\ HasSub(OutFrames[k], SymrefHEAD \o MasterName)

\* C11 amended: when the selected reference is a tag, the rewritten HEAD frame
\* carries the object id of the highest tag (the peeled id when the peeled
\* frame follows its tag) and no symref= capability at all, and
\* refs/heads/master is rewritten to the same id.
C11_TagNoSymref ==
    (WellFramed /\ Rewritten /\ SelectedIsTag) =>
        \E b \in Best(Sent, crMajor) : \E k \in Named(OutFrames, HEADName) :
            /\ HeadOfBest(k, b)
            /\ ~HasSub(OutFrames[k], SymrefEq)

\* v1 was asked of a repository with tags v1.2.0 and v1.3.0 and the peeled
\* line of v1.3.0: HEAD carries the peeled id, and the symref the upstream
\* advertised has become an oldref.
C11_ScenarioA ==
    /\ WellFramed /\ Rewritten /\ SelectedIsTag
    /\ crMajor = Version(1, -1, -1, FALSE)
    /\ \E a, b, c \in DOMAIN Sent :
         /\ a < b /\ b < c
         /\ RefVersion(Sent[a]) = Version(1, 2, 0, FALSE)
         /\ RefVersion(Sent[b]) = Version(1, 3, 0, FALSE)
         /\ Sent[c].name = Sent[b].name \o PeelSuffix
         /\ Best(Sent, crMajor) = {c}
         /\ \E k \in Named(OutFrames, HEADName) :
              /\ HeadOfBest(k, c)
              /\ HasSub(OutFrames[k], OldrefEq \o HEADName \o <<":">> \o MasterName)
              /\ ~HasSub(OutFrames[k], SymrefEq)

\* The capability tokens of a frame's payload: what follows the first NUL,
\* the closing newline left off, split at the spaces.
CapTokens(p) ==
    LET z == IndexByte(p, NUL)
        rest == SubSeq(p, z + 2, Len(p))
        text == IF rest # <<>> /\ rest[Len(rest)] = LF THEN SubSeq(rest, 1, Len(rest) - 1) ELSE rest
    IN  IF z < 0 \/ text = <<>> THEN <<>> ELSE SplitOn(text, SP)

\* A symref= token as oldref=, any other token as it is.
Renamed(t) == IF HasPrefix(t, SymrefEq) THEN OldrefEq \o SubSeq(t, Len(SymrefEq) + 1, Len(t)) ELSE t

\* The HEAD frame the upstream sent.
SentHead == Sent[CHOOSE k \in DOMAIN Sent : Sent[k].kind \in RefKinds /\ Sent[k].name = HEADName]

\* The capability tokens the synthesized HEAD frame is to have.
WantedTokens ==
    (IF SelectedIsBranch THEN <<SymrefHEAD \o scan.vrefname>> ELSE <<>>)
        \o [k \in 1..Len(CapTokens(Payload(SentHead))) |-> Renamed(CapTokens(Payload(SentHead))[k])]

\* The synthesized HEAD frame has the tokens it is to have, and no NUL when
\* it has none.
SymrefRule ==
    /\ Cardinality(Named(OutFrames, HEADName)) = 1
    /\ \A k \in Named(OutFrames, HEADName) :
         /\ CapTokens(OutFrames[k]) = WantedTokens
         /\ WantedTokens = <<>> => IndexByte(OutFrames[k], NUL) < 0
         /\ Cardinality({t \in DOMAIN WantedTokens : HasPrefix(CapTokens(OutFrames[k])[t], SymrefEq)})
                = (IF SelectedIsBranch THEN 1 ELSE 0)

\* C14: in every successful rewrite the synthesized HEAD frame has exactly one
\* symref= capability, symref=HEAD:<selected name>, placed first, when a
\* branch was selected and none when a tag was; every symref= token of the
\* original HEAD frame appears as oldref=, the other tokens are kept in their
\* order, and there is no NUL when nothing follows it.
C14_Symref == (WellFramed /\ Rewritten) => SymrefRule

\* The same for an original HEAD frame that ends in a newline.
C14_SymrefAfterNewline ==
    (WellFramed /\ Rewritten /\ SentHead.kind \in {"ref", "nullf"}) => SymrefRule

\* The HEAD frame came without the closing newline, and the last capability
\* of the synthesized frame has lost its last byte.
C14_LastTokenCut ==
    /\ WellFramed /\ Rewritten /\ SelectedIsBranch
    /\ SentHead.kind = "nolf" /\ SentHead.caps = MultiAckText
    /\ \E k \in Named(OutFrames, HEADName) :
         CapTokens(OutFrames[k]) = <<SymrefHEAD \o scan.vrefname, SubSeq(MultiAckText, 1, Len(MultiAckText) - 1)>>

\* A branch was selected under a HEAD frame with two symref= tokens, and a
\* tag under a HEAD frame with no capabilities.
C14_BothShapes ==
    /\ WellFramed /\ Rewritten
    /\ \/ SelectedIsBranch /\ SentHead.caps = TwoSymrefsText
       \/ SelectedIsTag /\ SentHead.caps = <<>> /\ SentHead.kind = "nullf"

\* The place of the HEAD frame in what the upstream sent.
HeadPos == CHOOSE k \in DOMAIN Sent : Sent[k].kind \in RefKinds /\ Sent[k].name = HEADName

NotMaster(f) == ~(f.kind \in RefKinds /\ f.name = MasterName)

\* The frames before the HEAD frame, and those after it less refs/heads/master.
BeforeHead == SubSeq(Sent, 1, HeadPos - 1)

AfterHead == SelectSeq(SubSeq(Sent, HeadPos + 1, Len(Sent)), NotMaster)

\* What the output holds between the copied frames.
Between == Slice(ret.changed, Len(EncodeAll(BeforeHead)), Len(ret.changed) - Len(EncodeAll(AfterHead)))

\* C15: in every successful rewrite the output is the frames before the
\* original HEAD frame, byte for byte, the synthesized HEAD frame, the
\* synthesized refs/heads/master frame, and the frames that followed the
\* original HEAD frame, in order and byte for byte, less the original
\* refs/heads/master frame; nothing else is added, dropped, changed or moved.
C15_Layout ==
    (WellFramed /\ Rewritten) =>
        /\ Len(ret.changed) >= Len(EncodeAll(BeforeHead)) + Len(EncodeAll(AfterHead))
        /\ Slice(ret.changed, 0, Len(EncodeAll(BeforeHead))) = EncodeAll(BeforeHead)
        /\ Slice(ret.changed, Len(ret.changed) - Len(EncodeAll(AfterHead)), Len(ret.changed)) = EncodeAll(AfterHead)
        /\ Len(FramesFrom(Between, 0)) = 2
        /\ FrameName(FramesFrom(Between, 0)[1]) = HEADName
        /\ FrameName(FramesFrom(Between, 0)[2]) = MasterName
        /\ \E b \in Best(Sent, crMajor) :
              /\ FrameHash(FramesFrom(Between, 0)[1]) = FullHash(Sent[b])
              /\ FrameHash(FramesFrom(Between, 0)[2]) = FullHash(Sent[b])

\* A rewrite of an advertisement with frames before HEAD, refs/heads/master
\* after it and more frames after that: the output has as many frames as the
\* input, one of them refs/heads/master.
C15_MasterExcised ==
    /\ WellFramed /\ Rewritten
    /\ HeadPos > 1
    /\ \E m \in DOMAIN Sent : m > HeadPos /\ m < Len(Sent) /\ Sent[m].name = MasterName
    /\ Len(AfterHead) >= 2
    /\ Len(OutFrames) = Len(Sent)
    /\ Cardinality(Named(OutFrames, MasterName)) = 1

\* ------------------------------------------------ claims on the length field

IsLowerHex(c) == \E k \in 1..16 : HexLower[k] = c

\* C16: each synthesized frame starts with a length field of exactly four
\* lower-case hex digits whose value is 4 plus the payload length, for every
\* payload the rewrite can produce, a HEAD payload longer than the original
\* by the added symref included; read back by the rules of the scan, the
\* frame ends where it ends.
C16_LengthField ==
    pkt.stage \in {"head", "master"} =>
        /\ Len(pkt.field) = 4
        /\ \A k \in DOMAIN pkt.field : IsLowerHex(pkt.field[k])
        /\ HexNum(pkt.field) = 4 + pkt.lineLen
        /\ pkt.readLen = pkt.frameLen

\* The same for an original HEAD frame short enough for the new one to fit
\* in four hex digits.
C16_LengthFieldWhenItFits ==
    (pkt.stage \in {"head", "master"} /\ 4 + pkt.lineLen <= MaxFrameSize) =>
        /\ Len(pkt.field) = 4
        /\ \A k \in DOMAIN pkt.field : IsLowerHex(pkt.field[k])
        /\ HexNum(pkt.field) = 4 + pkt.lineLen
        /\ pkt.readLen = pkt.frameLen

\* A branch was selected under a HEAD frame of the greatest length: the new
\* HEAD frame is longer, its length field has five digits, and a reader
\* takes the first four for the length.
C16_FiveDigits ==
    /\ pkt.stage = "head"
    /\ pkt.hsize = MaxFrameSize
    /\ HasPrefix(pkt.vrefname, HeadsPrefix)
    /\ Len(pkt.field) = 5
    /\ pkt.readLen < pkt.frameLen

\* Read by the framing rules from offset i on, b ends where a frame ends.
RECURSIVE WalksToEnd(_, _)
WalksToEnd(b, i) ==
    IF i = Len(b) THEN TRUE
    ELSE IF i + 4 > Len(b) THEN FALSE
    ELSE LET p == ParseInt(Slice(b, i, i + 4))
             size == IF p.val = 0 THEN 4 ELSE p.val
         IN  p.ok /\ size >= 4 /\ i + size <= Len(b) /\ WalksToEnd(b, i + size)

\* The same of the bytes changeRefs returned for the advertisements at hand,
\* whose frames are short: they end where a frame ends.
C16_OutputWellFramed == (WellFramed /\ Rewritten) => WalksToEnd(ret.changed, 0)

\* ------------------------------------------------------ claims on the scan

\* The frame under the cursor is a flush frame.
AtFlush == SliceOK(crData, scan.i, scan.i + 4) /\ Slice(crData, scan.i, scan.i + 4) = Rep("0", 4)

\* An iteration that went through: the cursor has moved forward, by four
\* bytes over a flush frame with nothing recorded, and the loop is over
\* exactly when the cursor is at the end of the input.
Forward ==
    /\ scan'.i > scan.i
    /\ scan'.i <= Len(crData)
    /\ scan'.st = "scanned" <=> scan'.i = Len(crData)
    /\ AtFlush => scan' = [scan EXCEPT !.i = scan.i + 4, !.st = scan'.st]

\* C17: the scan is a forward-only pass: on every iteration the cursor
\* strictly increases, a flush frame moves it by exactly four bytes and
\* contributes no reference and no version, and the scan of any input ends,
\* at the end of the buffer or with a framing error. (With the cursor
\* increasing and never past the end, the scan ends; how it ends is stated
\* of every iteration.)
C17_ForwardScan ==
    [][ScanStep =>
        /\ scan'.st \in {"scan", "scanned", ErrParseSize, ErrIncomplete}
        /\ scan'.st \in {"scan", "scanned"} => Forward]_vars

\* The same with the run-time panic counted among the ways the scan ends.
C17_ForwardOrPanic ==
    [][ScanStep =>
        /\ scan'.st \in {"scan", "scanned", ErrParseSize, ErrIncomplete, Panic}
        /\ scan'.st \in {"scan", "scanned"} => Forward]_vars

\* The scan went over a flush frame and further frames and then met the
\* length field 0003: it ended in a panic, before the end of the input.
C17_EndedInPanic ==
    /\ advert.tail = "small"
    /\ \E k \in DOMAIN Sent : Sent[k].kind = "flush"
    /\ scan.st = Panic
    /\ scan.i > 0 /\ scan.i < Len(crData)

\* C18: for every input and every requested version changeRefs returns
\* normally, with bytes, ErrNoVersion or a framing error: no slice or index
\* it takes leaves the buffer or has its start after its end.
C18_ReturnsNormally ==
    /\ scan.st # Panic
    /\ ret # NotReturned => ret.err \in {ErrNone, ErrNoVersion, ErrParseSize, ErrIncomplete}

\* A well-framed advertisement lists refs/heads/master, then HEAD, then a
\* reference the requested version contains: the scan went through and the
\* rewrite panicked on data[hlinej:mlinei].
C18_MasterBeforeHead ==
    /\ WellFramed /\ crMajor # VersionZero
    /\ scan.st = "scanned"
    /\ scan.mlinei > 0 /\ scan.hlinej > scan.mlinei
    /\ scan.vrefhash # <<>>
    /\ ret.err = Panic

\* ------------------------------------------ claims on the path and the Repo

\* The path is /<name>.<token>/info/refs with a token parseVersion accepts.
IsVersionedRefsPath(path) ==
    LET n == IF path = <<>> THEN 0 ELSE RunLen(Tail(path), Alnum)
    IN  /\ n >= 1 /\ path[1] = "/"
        /\ Len(path) >= n + 3 + Len(InfoRefsPath)
        /\ path[n + 2] = "."
        /\ HasSuffix(path, InfoRefsPath)
        /\ parseVersion(SubSeq(path, n + 3, Len(path) - Len(InfoRefsPath))).ok

\* The Version its token stands for.
PathVersion(path) ==
    parseVersion(SubSeq(path, RunLen(Tail(path), Alnum) + 3, Len(path) - Len(InfoRefsPath))).v

\* A token of the shape vN, N at least 1.
IsMajorOnly(v) == v.Major >= 1 /\ v.Minor = -1 /\ v.Patch = -1 /\ ~v.Unstable

\* The request of invocation r was served the advertisement as changeRefs
\* returned it for Version v.
ServedFor(r, v) ==
    /\ Fetching(r)
    /\ heap[loc[r].addr].MajorVersion = v
    /\ (Over(r) /\ loc[r].err = ErrNone) =>
           resp[r] = <<Response(200, "advertisement", FetchAndChangeTable[<<answer[r], v>>].changed)>>

AnswerFrames(a) ==
    IF a > Len(Answers) - Len(UpstreamAdverts)
    THEN UpstreamAdverts[a - (Len(Answers) - Len(UpstreamAdverts))].frames
    ELSE <<>>

MasterTree == <<"m", "a", "s", "t", "e", "r">>

\* C19: after a request whose fetch and rewrite succeeded for a version
\* other than v0, the Repo's FullVersion is the Version of the reference
\* HEAD and refs/heads/master were pointed at, and GitTree, as the go-get
\* page shows it, names that version; after a v0 request and after any
\* failed fetch or rewrite FullVersion is InvalidVersion and GitTree master.
C19_FullVersion ==
    \A r \in Reqs :
        (Over(r) /\ Fetching(r)) =>
            LET repo == heap[loc[r].addr]
                fs == AnswerFrames(answer[r])
            IN  IF loc[r].err = ErrNone /\ repo.MajorVersion # VersionZero
                THEN \E b \in Best(fs, repo.MajorVersion) :
                        /\ repo.FullVersion = RefVersion(fs[b])
                        /\ GitTree(repo) = VersionString(RefVersion(fs[b]))
                        /\ resp[r][1].kind = "go-get html" =>
                               HasSuffix(resp[r][1].body, <<SP>> \o VersionString(RefVersion(fs[b])))
                ELSE /\ repo.FullVersion = InvalidVersion
                     /\ GitTree(repo) = MasterTree
                     /\ (pc[r] = "done" /\ resp[r][1].kind = "go-get html") =>
                            HasSuffix(resp[r][1].body, <<SP>> \o MasterTree)

\* /p.v1?go-get=1 was served from a repository with branches v1 and v2 and
\* an annotated v1.3.0 tag: four versions were reported, FullVersion is
\* v1.3.0 and the page names the tree v1.3.0; and a v0 go-get request was
\* served with the tree master.
C19_TreeNamesVersion ==
    /\ NumReqs >= 2
    /\ pc[1] = "done" /\ pc[2] = "done"
    /\ Fetching(1) /\ Fetching(2)
    /\ heap[loc[1].addr].MajorVersion = Version(1, -1, -1, FALSE)
    /\ Len(heap[loc[1].addr].AllVersions) = 4
    /\ heap[loc[1].addr].FullVersion = Version(1, 3, 0, FALSE)
    /\ resp[1][1].kind = "go-get html"
    /\ HasSuffix(resp[1][1].body, <<SP, "v", "1", ".", "3", ".", "0">>)
    /\ heap[loc[2].addr].MajorVersion = VersionZero
    /\ Answers[answer[2]].status = 200 /\ loc[2].err = ErrNone
    /\ resp[2][1].kind = "go-get html"
    /\ HasSuffix(resp[2][1].body, <<SP>> \o MasterTree)

====
